---- MODULE Spec2Model ----
(***************************************************************************)
(* Model of the image I/O unit (loadImage / saveImage, the PFM and PPM     *)
(* codecs, the sRGB transfer functions) and of the Turing (sm_75) CUTLASS  *)
(* convolution instance list.                                              *)
(*                                                                         *)
(* Floats are binary fixed-point numbers with 30 fractional bits, so that  *)
(* every value in (-2, 2) fits a 32-bit integer; products are formed from  *)
(* 15-bit halves and rounded down.                                         *)
(***************************************************************************)
EXTENDS Integers, Sequences, FiniteSets, TLC

VARIABLES
  image,      \* the caller's ImageBuffer
  disk,       \* the file on disk
  oiio,       \* whether the build defines OIDN_USE_OPENIMAGEIO
  result,     \* the outcome of the last loadImage or saveImage call
  probe,      \* the argument and results of a scalar sRGB conversion
  device,     \* the architecture generation of the device
  instances,  \* the kernel variants the engine has fetched
  selected    \* the variant bound by the last selection

vars == <<image, disk, oiio, result, probe, device, instances, selected>>

----------------------------------------------------------------------------
(* Fixed-point arithmetic                                                  *)

FxHalf == 2 ^ 15

FxOne == FxHalf * FxHalf

\* floor(a * b / FxOne) for 0 <= b <= FxOne and |a| <= FxOne
MulFx(a, b) ==
  LET a1 == a \div FxHalf
      a0 == a % FxHalf
      b1 == b \div FxHalf
      b0 == b % FxHalf
  IN  a1 * b1 + ((a1 * b0 + a0 * b1) + ((a0 * b0) \div FxHalf)) \div FxHalf

\* floor(a * n / d), formed without an intermediate a * n
MulRat(a, n, d) == (a \div d) * n + ((a % d) * n) \div d

Pow5(r) ==
  LET r2 == MulFx(r, r)
      r4 == MulFx(r2, r2)
  IN  MulFx(r4, r)

Pow12(r) ==
  LET r2 == MulFx(r, r)
      r4 == MulFx(r2, r2)
      r8 == MulFx(r4, r4)
  IN  MulFx(r8, r4)

\* the largest r in [lo, hi) with Pow12(r) <= v, given Pow12(lo) <= v
RECURSIVE Root12(_, _, _)
Root12(lo, hi, v) ==
  IF hi - lo <= 1 THEN lo
  ELSE LET mid == lo + (hi - lo) \div 2
       IN  IF Pow12(mid) <= v THEN Root12(mid, hi, v) ELSE Root12(lo, mid, v)

\* the largest r in [lo, hi) with Pow5(r) <= v, given Pow5(lo) <= v
RECURSIVE Root5(_, _, _)
Root5(lo, hi, v) ==
  IF hi - lo <= 1 THEN lo
  ELSE LET mid == lo + (hi - lo) \div 2
       IN  IF Pow5(mid) <= v THEN Root5(mid, hi, v) ELSE Root5(lo, mid, v)

\* 0.0031308f
SrgbForwardThreshold == 3361671

\* 0.04045f
SrgbInverseThreshold == 43432857

\* 0.055f
SrgbOffset == 59055800

\* The sample values images and files are filled with:
\* 0, 0.0031308, 0.02, 0.04045, 0.5, 1 and -0.125
Palette ==
  << 0, SrgbForwardThreshold, MulRat(FxOne, 2, 100), SrgbInverseThreshold,
     FxOne \div 2, FxOne, 0 - (FxOne \div 8) >>

PaletteSet == {Palette[i] : i \in 1..Len(Palette)}

\* y^(5/12) and b^(12/5) by roots and powers
PowInv24Calc(y) == Pow5(Root12(0, FxOne + 1, y))

Pow24Calc(b) == Pow12(Root5(0, FxOne + 1, b))

\* y^(5/12) of the palette's values, computed once
PowInv24Memo == [y \in {p \in PaletteSet : p >= 0} |-> PowInv24Calc(y)]

\* std::pow(y, 1.f/2.4f) for 0 <= y <= 1
PowInv24(y) == IF y \in DOMAIN PowInv24Memo THEN PowInv24Memo[y] ELSE PowInv24Calc(y)

----------------------------------------------------------------------------
(* sRGB transfer functions                                                 *)

Abs(a) == IF a < 0 THEN 0 - a ELSE a

\* srgbForward with the subtraction of 0.055 left out
srgbForwardNoOffset(y) ==
  IF y <= SrgbForwardThreshold
    THEN MulRat(y, 1292, 100)
    ELSE MulRat(PowInv24(y), 1055, 1000)

srgbForward(y) ==
  IF y <= SrgbForwardThreshold
    THEN MulRat(y, 1292, 100)
    ELSE MulRat(PowInv24(y), 1055, 1000) - SrgbOffset

\* b^(12/5) of the bases the palette's values and their encodings give,
\* computed once
Pow24Memo ==
  [b \in {MulRat(x + SrgbOffset, 1000, 1055) :
            x \in {p \in PaletteSet \cup {srgbForward(q) : q \in PaletteSet} : p >= 0}}
     |-> Pow24Calc(b)]

\* std::pow(b, 2.4f) for 0 <= b <= 1
Pow24(b) == IF b \in DOMAIN Pow24Memo THEN Pow24Memo[b] ELSE Pow24Calc(b)

\* srgbInverse with < in place of <=
srgbInverseStrict(x) ==
  IF x < SrgbInverseThreshold
    THEN MulRat(x, 100, 1292)
    ELSE Pow24(MulRat(x + SrgbOffset, 1000, 1055))

srgbInverse(x) ==
  IF x <= SrgbInverseThreshold
    THEN MulRat(x, 100, 1292)
    ELSE Pow24(MulRat(x + SrgbOffset, 1000, 1055))

----------------------------------------------------------------------------
(* ImageBuffer: width, height, channel count and row-major float samples.  *)
(* Sample i of the code is data[i + 1].                                    *)

ImageBuffer(W, H, C) == [W |-> W, H |-> H, C |-> C, data |-> [i \in 1..(W * H * C) |-> 0]]

EmptyImage == [W |-> 0, H |-> 0, C |-> 0, data |-> <<>>]

getDataSize(img) == img.W * img.H * img.C

srgbForwardImage(img) ==
  [img EXCEPT !.data = [i \in 1..getDataSize(img) |-> srgbForward(img.data[i])]]

srgbInverseImage(img) ==
  [img EXCEPT !.data = [i \in 1..getDataSize(img) |-> srgbInverse(img.data[i])]]

----------------------------------------------------------------------------
(* File names are sequences of characters.                                 *)

UpperCase == <<"A", "B", "C", "D", "E", "F", "G", "H", "I", "J", "K", "L", "M",
               "N", "O", "P", "Q", "R", "S", "T", "U", "V", "W", "X", "Y", "Z">>

LowerCase == <<"a", "b", "c", "d", "e", "f", "g", "h", "i", "j", "k", "l", "m",
               "n", "o", "p", "q", "r", "s", "t", "u", "v", "w", "x", "y", "z">>

UpperToLower ==
  [c \in {UpperCase[k] : k \in 1..Len(UpperCase)} |->
     LowerCase[CHOOSE k \in 1..Len(UpperCase) : UpperCase[k] = c]]

tolower(c) == IF c \in DOMAIN UpperToLower THEN UpperToLower[c] ELSE c

\* filename.find_last_of('.'), 0 for npos, else the 1-based position
FindLastDot(filename) ==
  IF \E k \in 1..Len(filename) : filename[k] = "."
    THEN CHOOSE k \in 1..Len(filename) :
           /\ filename[k] = "."
           /\ \A j \in (k + 1)..Len(filename) : filename[j] # "."
    ELSE 0

getExtension(filename) ==
  LET pos == FindLastDot(filename)
  IN  IF pos = 0
        THEN <<>>
        ELSE LET ext == SubSeq(filename, pos + 1, Len(filename))
             IN  [k \in 1..Len(ext) |-> tolower(ext[k])]

ExtPFM == <<"p", "f", "m">>

ExtPPM == <<"p", "p", "m">>

ExtEXR == <<"e", "x", "r">>

ExtHDR == <<"h", "d", "r">>

isSrgbImage(filename) ==
  LET ext == getExtension(filename)
  IN  ext # ExtPFM /\ ext # ExtEXR /\ ext # ExtHDR

----------------------------------------------------------------------------
(* Files.  A PFM or PPM file is its header fields and its sample stream;   *)
(* hdrOk is whether width, height and scale parse as numbers.  A file of   *)
(* the image library (id "OIIO") also carries its channel count.           *)

NoFile ==
  [exists |-> FALSE, name |-> <<>>, id |-> "", W |-> 0, H |-> 0, C |-> 0,
   scale |-> 0, hdrOk |-> FALSE, data |-> <<>>]

Ok(img, writes) == [status |-> "ok", err |-> "", image |-> img, writes |-> writes]

Throw(err) == [status |-> "error", err |-> err, image |-> EmptyImage, writes |-> <<>>]

\* image[idx] = v, and one more write counted at idx (idx is 0-based)
Store(acc, idx, v, fail) ==
  [data |-> [acc.data EXCEPT ![idx + 1] = v],
   writes |-> [acc.writes EXCEPT ![idx + 1] = @ + 1],
   fail |-> acc.fail \/ fail]

\* the pixel loop without the vertical flip
RECURSIVE ReadPixelsTopDown(_, _, _, _, _, _, _)
ReadPixelsTopDown(k, W, H, C, scale, stream, acc) ==
  IF k >= W * H * C THEN acc
  ELSE LET x == IF k < Len(stream) THEN stream[k + 1] ELSE 0
       IN  ReadPixelsTopDown(k + 1, W, H, C, scale, stream,
                             Store(acc, k, MulFx(x, scale), k >= Len(stream)))

\* The pixel loop of loadImagePFM from the k-th sample on.  A read past the
\* end of the stream sets the stream's fail state and leaves x unset; what is
\* stored then never leaves the function, which throws after the loop.
RECURSIVE ReadPixels(_, _, _, _, _, _, _)
ReadPixels(k, W, H, C, scale, stream, acc) ==
  IF k >= W * H * C THEN acc
  ELSE LET h == k \div (W * C)
           w == (k % (W * C)) \div C
           c == k % C
           x == IF k < Len(stream) THEN stream[k + 1] ELSE 0
       IN  ReadPixels(k + 1, W, H, C, scale, stream,
                      Store(acc, ((H - 1 - h) * W + w) * C + c, MulFx(x, scale),
                            k >= Len(stream)))

\* loadImagePFM without the check of the stream after the pixel loop
loadImagePFMUnchecked(filename, file) ==
  IF ~file.exists \/ file.name # filename
    THEN Throw("cannot open image file")
  ELSE IF file.id # "PF" /\ file.id # "Pf"
    THEN Throw("invalid PFM image")
  ELSE IF ~file.hdrOk
    THEN Throw("invalid PFM image")
  ELSE IF file.scale >= 0
    THEN Throw("big-endian PFM images are not supported")
  ELSE LET C == IF file.id = "PF" THEN 3 ELSE 1
           img == ImageBuffer(file.W, file.H, C)
           acc == ReadPixels(0, file.W, file.H, C, Abs(file.scale), file.data,
                             [data |-> img.data, writes |-> img.data, fail |-> FALSE])
       IN  Ok([img EXCEPT !.data = acc.data], acc.writes)

loadImagePFM(filename, file) ==
  IF ~file.exists \/ file.name # filename
    THEN Throw("cannot open image file")
  ELSE IF file.id # "PF" /\ file.id # "Pf"
    THEN Throw("invalid PFM image")
  ELSE IF ~file.hdrOk
    THEN Throw("invalid PFM image")
  ELSE IF file.scale >= 0
    THEN Throw("big-endian PFM images are not supported")
  ELSE LET C == IF file.id = "PF" THEN 3 ELSE 1
           W == file.W
           H == file.H
           scale == Abs(file.scale)
           img == ImageBuffer(W, H, C)
           acc == ReadPixels(0, W, H, C, scale, file.data,
                             [data |-> img.data, writes |-> img.data, fail |-> FALSE])
       IN  IF acc.fail
             THEN Throw("invalid PFM image")
             ELSE Ok([img EXCEPT !.data = acc.data], acc.writes)

----------------------------------------------------------------------------
(* Saving.  A save returns the file it leaves on disk, the set of sample   *)
(* indices it read from the image, and its outcome.                        *)

Saved(file, reads) == [status |-> "ok", err |-> "", file |-> file, reads |-> reads]

SaveThrow(err, file) == [status |-> "error", err |-> err, file |-> file, reads |-> {}]

\* image[idx] as saveImagePFM reads it: a read outside the buffer is
\* undefined and yields whatever the build finds there (junk, any of
\* JunkValues, one per call)
ReadSample(img, idx, junk) ==
  IF idx >= 0 /\ idx < getDataSize(img) THEN img.data[idx + 1] ELSE junk

\* the index saveImagePFM reads for the k-th sample it writes
PFMReadIndex(img, k) ==
  LET h == k \div (img.W * 3)
      w == (k % (img.W * 3)) \div 3
      c == k % 3
  IN  ((img.H - 1 - h) * img.W + w) * img.C + c

saveImagePFM(filename, img, old, canOpen, junk) ==
  IF ~canOpen
    THEN SaveThrow("cannot open image file", old)
    ELSE LET n == img.W * img.H * 3
         IN  Saved([exists |-> TRUE, name |-> filename, id |-> "PF",
                    W |-> img.W, H |-> img.H, C |-> 0,
                    scale |-> 0 - FxOne, hdrOk |-> TRUE,
                    data |-> [k \in 1..n |-> ReadSample(img, PFMReadIndex(img, k - 1), junk)]],
                   {PFMReadIndex(img, k) : k \in 0..(n - 1)})

\* std::min(std::max(int(x * 255.f), 0), 255)
Quantize(x) ==
  LET q == ((x \div FxHalf) * 255 + ((x % FxHalf) * 255) \div FxHalf) \div FxHalf
  IN  IF q < 0 THEN 0 ELSE IF q > 255 THEN 255 ELSE q

saveImagePPM(filename, img, old, canOpen) ==
  IF img.C # 3
    THEN SaveThrow("image must have 3 channels", old)
  ELSE IF ~canOpen
    THEN SaveThrow("cannot open image file", old)
  ELSE LET n == img.W * img.H * 3
       IN  Saved([exists |-> TRUE, name |-> filename, id |-> "P6",
                  W |-> img.W, H |-> img.H, C |-> 0,
                  scale |-> 255, hdrOk |-> TRUE,
                  data |-> [k \in 1..n |->
                              Quantize(img.data[((k - 1) \div 3) * img.C + ((k - 1) % 3) + 1])]],
                 {((k - 1) \div 3) * img.C + ((k - 1) % 3) : k \in 1..n})

\* The image library is external: lib is what its calls answer, "ok",
\* "open" (open or create fails) or "io" (read_image or write_image fails).
\* It opens the files of its own kind (id "OIIO") that were written whole.
loadImageOIIO(filename, file, lib) ==
  IF ~file.exists \/ file.name # filename \/ file.id # "OIIO" \/ ~file.hdrOk
       \/ lib = "open"
    THEN Throw("cannot open image file")
  ELSE IF lib = "io"
    THEN Throw("failed to read image data")
  ELSE Ok([W |-> file.W, H |-> file.H, C |-> file.C, data |-> file.data], <<>>)

saveImageOIIO(filename, img, old, lib) ==
  LET blank == [exists |-> TRUE, name |-> filename, id |-> "OIIO",
                W |-> img.W, H |-> img.H, C |-> img.C,
                scale |-> 0, hdrOk |-> FALSE, data |-> <<>>]
  IN  IF lib = "open"
        THEN SaveThrow("cannot save unsupported image file format", old)
      ELSE IF lib = "io"
        THEN SaveThrow("failed to write image data", blank)
      ELSE Saved([blank EXCEPT !.hdrOk = TRUE, !.data = img.data],
                 {i - 1 : i \in 1..getDataSize(img)})

----------------------------------------------------------------------------
(* loadImage and saveImage; useOIIO is the build's OIDN_USE_OPENIMAGEIO.   *)

loadImage(filename, file, useOIIO, lib) ==
  IF getExtension(filename) = ExtPFM
    THEN loadImagePFM(filename, file)
  ELSE IF useOIIO
    THEN loadImageOIIO(filename, file, lib)
  ELSE Throw("cannot load unsupported image file format")

saveImage(filename, img, old, useOIIO, canOpen, lib, junk) ==
  LET ext == getExtension(filename)
  IN  IF ext = ExtPFM
        THEN saveImagePFM(filename, img, old, canOpen, junk)
      ELSE IF ext = ExtPPM
        THEN saveImagePPM(filename, img, old, canOpen)
      ELSE IF useOIIO
        THEN saveImageOIIO(filename, img, old, lib)
      ELSE SaveThrow("cannot write unsupported image file format", old)

\* loadImage(filename, srgb): raw is what loadImage(filename) returned
loadImageSrgb(filename, srgb, file, useOIIO, lib) ==
  LET r == loadImage(filename, file, useOIIO, lib)
  IN  IF r.status = "ok" /\ ~srgb /\ isSrgbImage(filename)
        THEN [status |-> "ok", err |-> "", image |-> srgbInverseImage(r.image),
              raw |-> r.image, writes |-> r.writes]
        ELSE [status |-> r.status, err |-> r.err, image |-> r.image,
              raw |-> r.image, writes |-> r.writes]

\* saveImage(filename, image, srgb) encoding whenever the file is
\* gamma-encoded, whatever the flag
saveImageSrgbIgnoringFlag(filename, img, srgb, old, useOIIO, canOpen, lib, junk) ==
  LET written == IF isSrgbImage(filename) THEN srgbForwardImage(img) ELSE img
      r == saveImage(filename, written, old, useOIIO, canOpen, lib, junk)
  IN  [status |-> r.status, err |-> r.err, file |-> r.file, reads |-> r.reads,
       written |-> written, caller |-> img]

\* saveImage(filename, image, srgb) encoding the caller's image in place
saveImageSrgbInPlace(filename, img, srgb, old, useOIIO, canOpen, lib, junk) ==
  LET written == IF ~srgb /\ isSrgbImage(filename) THEN srgbForwardImage(img) ELSE img
      r == saveImage(filename, written, old, useOIIO, canOpen, lib, junk)
  IN  [status |-> r.status, err |-> r.err, file |-> r.file, reads |-> r.reads,
       written |-> written, caller |-> written]

\* saveImage(filename, image, srgb): caller is the caller's image after the
\* call, written the image handed to saveImage(filename, image)
saveImageSrgb(filename, img, srgb, old, useOIIO, canOpen, lib, junk) ==
  LET written == IF ~srgb /\ isSrgbImage(filename) THEN srgbForwardImage(img) ELSE img
      r == saveImage(filename, written, old, useOIIO, canOpen, lib, junk)
  IN  [status |-> r.status, err |-> r.err, file |-> r.file, reads |-> r.reads,
       written |-> written, caller |-> img]

----------------------------------------------------------------------------
(* The program's inputs                                                    *)

MaxDim == 2

Dims == 1..MaxDim

Channels == {1, 2, 3, 4}

\* n samples that differ from their neighbours, rows and columns
Samples(n) == [i \in 1..n |-> Palette[((i - 1) % Len(Palette)) + 1]]

TestImage(W, H, C) == [W |-> W, H |-> H, C |-> C, data |-> Samples(W * H * C)]

Images == {TestImage(W, H, C) : W \in Dims, H \in Dims, C \in Channels}

FilePFM == <<"a", ".", "P", "F", "M">>

FilePPM == <<"b", ".", "p", "p", "m">>

FilePNG == <<"c", ".", "p", "n", "g">>

FileHDR == <<"d", ".", "x", ".", "h", "d", "r">>

FileEXR == <<"e", ".", "E", "x", "r">>

FileBare == <<"f">>

Filenames == {FilePFM, FilePPM, FilePNG, FileHDR, FileEXR, FileBare}

\* -1.0 and -0.5 (little-endian), 0.0 and 1.0 (big-endian)
Scales == {0 - FxOne, 0 - (FxOne \div 2), 0, FxOne}

PFMChannels(id) == IF id = "Pf" THEN 1 ELSE 3

\* a file in PFM layout whose stream lacks its last `missing` samples
PFMFile(name, id, W, H, scale, hdrOk, missing) ==
  [exists |-> TRUE, name |-> name, id |-> id, W |-> W, H |-> H, C |-> 0,
   scale |-> scale, hdrOk |-> hdrOk,
   data |-> Samples(W * H * PFMChannels(id) - missing)]

\* the well-formed PFM files and those with one defect
PFMFiles ==
  { PFMFile(FilePFM, id, W, H, scale, hdrOk, missing) :
      id \in {"PF", "Pf", "P6"}, W \in 0..MaxDim, H \in 0..MaxDim, scale \in Scales,
      hdrOk \in BOOLEAN, missing \in {0, 1} }

OneDefect(f) ==
  LET d1 == IF f.id = "P6" THEN 1 ELSE 0
      d2 == IF f.hdrOk THEN 0 ELSE 1
      d3 == IF f.scale >= 0 THEN 1 ELSE 0
      d4 == IF Len(f.data) < f.W * f.H * PFMChannels(f.id) THEN 1 ELSE 0
  IN  d1 + d2 + d3 + d4 <= 1

OIIOFile(name, img) ==
  [exists |-> TRUE, name |-> name, id |-> "OIIO", W |-> img.W, H |-> img.H,
   C |-> img.C, scale |-> 0, hdrOk |-> TRUE, data |-> img.data]

\* the well-formed and the defective PFM files, and library files under the
\* other names
InputFiles ==
  {f \in PFMFiles : OneDefect(f)}
    \cup {OIIOFile(name, TestImage(W, H, 3)) :
            name \in Filenames \ {FilePFM}, W \in Dims, H \in Dims}

LibAnswers == {"ok", "open", "io"}

JunkValues == {0, FxOne}

\* what the environment can answer to a load: the library is asked only by
\* loadImageOIIO
LoadAnswers(filename, useOIIO) ==
  IF useOIIO /\ getExtension(filename) # ExtPFM THEN LibAnswers ELSE {"ok"}

\* what the environment can answer to a save: the streams of the PFM and PPM
\* writers only open or fail to
SaveAnswers(filename, useOIIO) ==
  LET ext == getExtension(filename)
  IN  IF ext = ExtPFM \/ ext = ExtPPM THEN {"ok", "open"}
      ELSE IF useOIIO THEN LibAnswers
      ELSE {"ok"}

\* what an out-of-bounds read can find: only saveImagePFM of an image with
\* fewer than 3 channels makes one
JunkChoices(filename, img) ==
  IF getExtension(filename) = ExtPFM /\ img.C < 3 /\ img.W * img.H > 0
    THEN JunkValues
    ELSE {0}

----------------------------------------------------------------------------
(* The image I/O state machine: the caller's image, one file on disk, and  *)
(* the outcome of the last call.                                           *)

NoResult ==
  [op |-> "none", filename |-> <<>>, srgb |-> FALSE, status |-> "", err |-> "",
   image |-> EmptyImage, raw |-> EmptyImage, writes |-> <<>>, reads |-> {},
   before |-> EmptyImage]

NoProbe == [op |-> "none", x |-> 0, y |-> 0, z |-> 0]

NoSelection == [status |-> "none", M |-> 0, N |-> 0, budget |-> 0, variant |-> 0]

\* the variables of the other state machines, at rest
IdleSrgb == probe = NoProbe

IdleKernel == device = 0 /\ instances = <<>> /\ selected = NoSelection

IdleIO == image = EmptyImage /\ disk = NoFile /\ oiio = FALSE /\ result = NoResult

LoadImage(filename, srgb, lib) ==
  LET r == loadImageSrgb(filename, srgb, disk, oiio, lib)
  IN  /\ result' = [op |-> "load", filename |-> filename, srgb |-> srgb,
                    status |-> r.status, err |-> r.err, image |-> r.image,
                    raw |-> r.raw, writes |-> r.writes, reads |-> {},
                    before |-> image]
      /\ UNCHANGED <<image, disk, oiio, probe, device, instances, selected>>

SaveImage(filename, srgb, lib, junk) ==
  LET r == saveImageSrgb(filename, image, srgb, disk, oiio, lib # "open", lib, junk)
  IN  /\ result' = [op |-> "save", filename |-> filename, srgb |-> srgb,
                    status |-> r.status, err |-> r.err, image |-> r.written,
                    raw |-> image, writes |-> <<>>, reads |-> r.reads,
                    before |-> image]
      /\ image' = r.caller
      /\ disk' = r.file
      /\ UNCHANGED <<oiio, probe, device, instances, selected>>

\* Loading: the disk holds an input file, any name is asked for.
InitLoad ==
  /\ oiio \in BOOLEAN
  /\ image = EmptyImage
  /\ disk \in InputFiles \cup {NoFile}
  /\ result = NoResult
  /\ IdleSrgb /\ IdleKernel

NextLoad ==
  \E filename \in Filenames, srgb \in BOOLEAN :
    \E lib \in LoadAnswers(filename, oiio) : LoadImage(filename, srgb, lib)

SpecLoad == InitLoad /\ [][NextLoad]_vars

\* Saving: the caller holds an image, saves it under any name and reads the
\* file on disk back.
Init ==
  /\ oiio \in BOOLEAN
  /\ image \in Images
  /\ disk = NoFile
  /\ result = NoResult
  /\ IdleSrgb /\ IdleKernel

Next ==
  \/ \E filename \in Filenames, srgb \in BOOLEAN :
       \E lib \in SaveAnswers(filename, oiio), junk \in JunkChoices(filename, image) :
         SaveImage(filename, srgb, lib, junk)
  \/ \E srgb \in BOOLEAN :
       \E lib \in LoadAnswers(disk.name, oiio) : LoadImage(disk.name, srgb, lib)

Spec == Init /\ [][Next]_vars

----------------------------------------------------------------------------
(* The scalar transfer functions on their own: one value is drawn and      *)
(* decoded, encoded, or decoded and encoded again.                         *)

Grid == 100

\* 0.0, 0.04045, 0.5 and 1.0
RoundTripPoints == {0, SrgbInverseThreshold, FxOne \div 2, FxOne}

ProbeInputs ==
  {MulRat(FxOne, k, Grid) : k \in 0..Grid}
    \cup RoundTripPoints
    \cup {SrgbForwardThreshold, SrgbForwardThreshold + 1, SrgbInverseThreshold + 1}

InitSrgb ==
  /\ probe \in {[op |-> "none", x |-> x, y |-> 0, z |-> 0] : x \in ProbeInputs}
  /\ IdleIO /\ IdleKernel

Decode ==
  /\ probe.op = "none"
  /\ probe' = [probe EXCEPT !.op = "decode", !.y = srgbInverse(probe.x)]
  /\ UNCHANGED <<image, disk, oiio, result, device, instances, selected>>

Encode ==
  /\ probe.op = "none"
  /\ probe' = [probe EXCEPT !.op = "encode", !.y = srgbForward(probe.x)]
  /\ UNCHANGED <<image, disk, oiio, result, device, instances, selected>>

\* srgbForward(srgbInverse(x))
RoundTrip ==
  /\ probe.op = "none"
  /\ probe' = [probe EXCEPT !.op = "roundtrip", !.y = srgbInverse(probe.x),
                            !.z = srgbForward(srgbInverse(probe.x))]
  /\ UNCHANGED <<image, disk, oiio, result, device, instances, selected>>

NextSrgb == Decode \/ Encode \/ RoundTrip

SpecSrgb == InitSrgb /\ [][NextSrgb]_vars

----------------------------------------------------------------------------
(* The kernel catalog of architecture generation 75 and the selection of   *)
(* a variant for a problem shape.                                          *)

GemmShape(m, n, k) == [M |-> m, N |-> n, K |-> k]

CutlassConvInstance(type, arch, threadblock, warp, stages) ==
  [type |-> type, arch |-> arch, threadblock |-> threadblock, warp |-> warp,
   stages |-> stages]

\* the list with its second entry declared for generation 80
getCutlassConvInstancesMixed ==
  << CutlassConvInstance("half", 75, GemmShape(256, 32, 32), GemmShape(64, 32, 32), 2),
     CutlassConvInstance("half", 80, GemmShape(256, 64, 32), GemmShape(64, 64, 32), 2) >>

getCutlassConvInstances75 ==
  << CutlassConvInstance("half", 75, GemmShape(256, 32, 32), GemmShape(64, 32, 32), 2),
     CutlassConvInstance("half", 75, GemmShape(256, 64, 32), GemmShape(64, 64, 32), 2) >>

\* step 1: the variants whose declared architecture is the device's
FilterByArch(list, arch) == SelectSeq(list, LAMBDA v : v.arch = arch)

\* scratch memory of a variant: its A and B tiles, 2 bytes a value, per stage
ScratchBytes(v) ==
  (v.threadblock.M * v.threadblock.K + v.threadblock.N * v.threadblock.K) * 2 * v.stages

\* step 2: the variants within the scratch budget
FilterByBudget(list, budget) == SelectSeq(list, LAMBDA v : ScratchBytes(v) <= budget)

TileSize(v) == v.threadblock.M * v.threadblock.N * v.threadblock.K

PadTo(x, t) == ((x + t - 1) \div t) * t

PaddingWaste(v, M, N) == PadTo(M, v.threadblock.M) * PadTo(N, v.threadblock.N) - M * N

\* step 3: the largest tile, then the least padding waste, then the first
Better(a, b, M, N) ==
  \/ TileSize(a) > TileSize(b)
  \/ TileSize(a) = TileSize(b) /\ PaddingWaste(a, M, N) < PaddingWaste(b, M, N)

SelectVariant(list, arch, M, N, budget) ==
  LET byArch == FilterByArch(list, arch)
      fits == FilterByBudget(byArch, budget)
      best == CHOOSE i \in 1..Len(fits) :
                /\ \A j \in 1..Len(fits) : ~Better(fits[j], fits[i], M, N)
                /\ \A j \in 1..(i - 1) : Better(fits[i], fits[j], M, N)
  IN  IF Len(fits) = 0
        THEN [status |-> "UnsupportedOperation", M |-> M, N |-> N, budget |-> budget,
              variant |-> 0]
        ELSE [status |-> "ok", M |-> M, N |-> N, budget |-> budget, variant |-> best]

Generations == {70, 75, 80}

ProblemSizes == {1, 32, 100, 256, 300}

\* 16 KiB, 36 KiB, 40 KiB and 48 KiB of scratch memory
Budgets == {16384, 36864, 40960, 49152}

InitKernel ==
  /\ device \in Generations
  /\ instances = <<>>
  /\ selected = NoSelection
  /\ IdleIO /\ IdleSrgb

\* the engine of a generation-75 device asks for its catalog
GetInstances ==
  /\ device = 75
  /\ instances' = getCutlassConvInstances75
  /\ UNCHANGED <<image, disk, oiio, result, probe, device, selected>>

Select(M, N, budget) ==
  /\ selected' = SelectVariant(instances, device, M, N, budget)
  /\ UNCHANGED <<image, disk, oiio, result, probe, device, instances>>

NextKernel ==
  \/ GetInstances
  \/ \E M \in ProblemSizes, N \in ProblemSizes, budget \in Budgets : Select(M, N, budget)

SpecKernel == InitKernel /\ [][NextKernel]_vars

----------------------------------------------------------------------------
(* Properties                                                              *)

LoadedPFM ==
  result.op = "load" /\ result.status = "ok" /\ getExtension(result.filename) = ExtPFM

\* C4: a successful loadImagePFM returns the header's width and height, 3
\* channels for "PF" and 1 for "Pf", and the k-th sample of the stream,
\* k = (h*W + w)*C + c, times |scale| at index ((H-1-h)*W + w)*C + c; every
\* index of the image is written exactly once.
C4_PFMLayout ==
  LoadedPFM =>
    LET img == result.image
        W == disk.W
        H == disk.H
        C == IF disk.id = "PF" THEN 3 ELSE 1
    IN  /\ img.W = W /\ img.H = H /\ img.C = C
        /\ disk.id \in {"PF", "Pf"}
        /\ Len(img.data) = W * H * C
        /\ \A h \in 0..(H - 1), w \in 0..(W - 1), c \in 0..(C - 1) :
             img.data[((H - 1 - h) * W + w) * C + c + 1]
               = MulFx(disk.data[(h * W + w) * C + c + 1], Abs(disk.scale))
        /\ \A i \in 1..(W * H * C) : result.writes[i] = 1

\* a 2x2 RGB file with scale -0.5 was loaded
C4_Witness ==
  /\ LoadedPFM
  /\ disk.id = "PF" /\ disk.W = 2 /\ disk.H = 2 /\ disk.scale = 0 - (FxOne \div 2)
  /\ result.image.data[1] # result.image.data[7]

\* the file on disk is one loadImagePFM(filename) can read whole
ReadablePFM(filename) ==
  /\ disk.exists /\ disk.name = filename
  /\ disk.id \in {"PF", "Pf"}
  /\ disk.hdrOk
  /\ disk.scale < 0
  /\ Len(disk.data) >= disk.W * disk.H * PFMChannels(disk.id)

Mismatch(filename, srgb) == srgb # isSrgbImage(filename)

\* C1 as stated: whenever the flag and the encoding isSrgbImage gives the
\* file differ, every sample is decoded on load and encoded on save, and
\* whenever they agree the samples pass unconverted.
C1_AnyMismatchConverts ==
  /\ (result.op = "load" /\ result.status = "ok") =>
       result.image = IF Mismatch(result.filename, result.srgb)
                        THEN srgbInverseImage(result.raw)
                        ELSE result.raw
  /\ result.op = "save" =>
       result.image = IF Mismatch(result.filename, result.srgb)
                        THEN srgbForwardImage(result.raw)
                        ELSE result.raw

\* C1, amended: the samples are converted (decoded on load, encoded on save)
\* exactly when the flag is false and isSrgbImage(filename) is true; in every
\* other case, a true flag with a linear file included, they pass
\* unconverted.
C1_LinearOfGammaConverts ==
  /\ (result.op = "load" /\ result.status = "ok") =>
       result.image = IF ~result.srgb /\ isSrgbImage(result.filename)
                        THEN srgbInverseImage(result.raw)
                        ELSE result.raw
  /\ result.op = "save" =>
       result.image = IF ~result.srgb /\ isSrgbImage(result.filename)
                        THEN srgbForwardImage(result.raw)
                        ELSE result.raw

\* a gamma-encoded file was loaded as linear and its samples were decoded
C1_Witness ==
  /\ result.op = "load" /\ result.status = "ok"
  /\ ~result.srgb /\ isSrgbImage(result.filename)
  /\ getDataSize(result.raw) > 0
  /\ result.image # result.raw

Tolerance == FxOne \div 10000

\* C2: for x in {0.0, 0.04045, 0.5, 1.0}, srgbForward(srgbInverse(x)) is
\* within 1e-4 of x.
C2_RoundTrip ==
  (probe.op = "roundtrip" /\ probe.x \in RoundTripPoints) =>
    Abs(probe.z - probe.x) <= Tolerance

\* 0.04045 was decoded on the linear branch and encoded on the power branch
C2_Witness ==
  /\ probe.op = "roundtrip"
  /\ probe.x = SrgbInverseThreshold
  /\ probe.y > SrgbForwardThreshold
  /\ probe.z > 0

EncodeBranches(y) ==
  IF y <= SrgbForwardThreshold
    THEN MulRat(y, 1292, 100)
    ELSE MulRat(PowInv24(y), 1055, 1000) - SrgbOffset

DecodeBranches(x) ==
  IF x <= SrgbInverseThreshold
    THEN MulRat(x, 100, 1292)
    ELSE Pow24(MulRat(x + SrgbOffset, 1000, 1055))

SameShape(a, b) ==
  /\ a.W = b.W /\ a.H = b.H /\ a.C = b.C
  /\ Len(a.data) = getDataSize(b)
  /\ Len(b.data) = getDataSize(b)

\* C7: srgbInverse is x/12.92 exactly when x <= 0.04045 and
\* ((x+0.055)/1.055)^2.4 otherwise, srgbForward is 12.92*y exactly when
\* y <= 0.0031308 and 1.055*y^(1/2.4) - 0.055 otherwise, and a converted
\* image has the scalar function applied at every index in [0, getDataSize())
\* and nothing else changed.
C7_Branches ==
  /\ (result.op = "load" /\ result.status = "ok"
        /\ ~result.srgb /\ isSrgbImage(result.filename)) =>
       /\ SameShape(result.image, result.raw)
       /\ \A i \in 1..getDataSize(result.raw) :
            result.image.data[i] = DecodeBranches(result.raw.data[i])
  /\ (result.op = "save" /\ ~result.srgb /\ isSrgbImage(result.filename)) =>
       /\ SameShape(result.image, result.raw)
       /\ \A i \in 1..getDataSize(result.raw) :
            result.image.data[i] = EncodeBranches(result.raw.data[i])

\* an image with samples at, below and above 0.04045 was decoded
C7_Witness ==
  /\ result.op = "load" /\ result.status = "ok"
  /\ ~result.srgb /\ isSrgbImage(result.filename)
  /\ \E i, j, k \in 1..getDataSize(result.raw) :
       /\ result.raw.data[i] = SrgbInverseThreshold
       /\ result.raw.data[j] > SrgbInverseThreshold
       /\ result.raw.data[k] < SrgbInverseThreshold /\ result.raw.data[k] > 0

SavedPFM ==
  result.op = "save" /\ result.status = "ok" /\ getExtension(result.filename) = ExtPFM

\* C8 as stated: for an image with W >= 1, H >= 1 and C >= 1, saveImagePFM
\* reads only sample indices in [0, W*H*C), and the "PF" header it writes
\* (3 channels) matches the samples per pixel it writes.
C8_PFMReadsInBounds ==
  (SavedPFM /\ result.raw.W >= 1 /\ result.raw.H >= 1 /\ result.raw.C >= 1) =>
    /\ \A i \in result.reads : 0 <= i /\ i < getDataSize(result.raw)
    /\ disk.id = "PF"
    /\ Len(disk.data) = disk.W * disk.H * 3

\* C9 as stated: loading the file saveImagePFM wrote returns the saved
\* image: same width, height, channel count and samples.
C9_PFMRoundTrip ==
  (LoadedPFM /\ disk.name = result.filename) => result.image = image

\* C10: saveImage(filename, image, srgb) leaves the caller's image as it
\* was, whether the call succeeds or fails; an encode is applied to the copy
\* that is written.
C10_CallerImageUnchanged ==
  result.op = "save" =>
    /\ image = result.before
    /\ image.W = result.before.W /\ image.H = result.before.H
    /\ image.C = result.before.C /\ image.data = result.before.data

\* a save that encoded: what was written differs from the caller's image
C10_Witness ==
  /\ result.op = "save" /\ result.status = "ok"
  /\ ~result.srgb /\ isSrgbImage(result.filename)
  /\ result.image # result.before
  /\ image = result.before

\* C6: the list getCutlassConvInstances<75>() returns is the same on every
\* call, each of its variants declares architecture 75, and filtering it by
\* the generation of a generation-75 device keeps every entry.
C6_CatalogIsSm75 ==
  instances # <<>> =>
    /\ device = 75
    /\ Len(instances) = 2
    /\ \A i \in 1..Len(instances) : instances[i].arch = 75
    /\ FilterByArch(instances, device) = instances

\* the catalog was fetched and a variant selected from it
C6_Witness ==
  /\ instances # <<>>
  /\ selected.status = "ok"
  /\ selected.variant \in 1..Len(instances)

====
